---- MODULE Spec2Model ----
(***************************************************************************)
(* dante-cli: the command dispatcher of src/main.rs.                       *)
(*                                                                         *)
(* A string is a sequence of Unicode code points (124 is '|', 64 is '@',   *)
(* 58 is ':', 46 is '.', 48..57 are '0'..'9', 43 is '+', 97 is 'a', 233    *)
(* is U+00E9, a non-ASCII letter).  The library dante_control_rs is        *)
(* outside the program: each of its calls is an event of the model whose   *)
(* result is chosen by the environment.                                    *)
(***************************************************************************)
EXTENDS Integers, Sequences, FiniteSets, TLC

VARIABLES cmd, source, file, pos, pc, error, calls, disc, line, loc

vars == <<cmd, source, file, pos, pc, error, calls, disc, line, loc>>

(* ------------------------------ bounds --------------------------------- *)
MaxNameLen == 2     \* longest device / channel name drawn
MaxLines == 3       \* longest batch file drawn
MaxTicks == 3       \* Monitor iterations followed

(* --------------------------- characters -------------------------------- *)
Pipe == 124
Colon == 58
At == 64

\* ascii::AsAsciiStr::as_ascii_str succeeds iff every character is < 128
as_ascii_str_ok(s) == \A k \in 1..Len(s) : s[k] < 128

contains(s, c) == \E k \in 1..Len(s) : s[k] = c

\* variant: splits at the LAST occurrence of the delimiter (rsplit_once)
split_once_last(s, c) ==
  IF contains(s, c)
  THEN LET k == CHOOSE k \in 1..Len(s) :
                  s[k] = c /\ \A j \in (k + 1)..Len(s) : s[j] # c
       IN [some |-> TRUE, fst |-> SubSeq(s, 1, k - 1), snd |-> SubSeq(s, k + 1, Len(s))]
  ELSE [some |-> FALSE, fst |-> <<>>, snd |-> <<>>]

\* str::split_once: split at the FIRST occurrence of the delimiter
split_once(s, c) ==
  IF contains(s, c)
  THEN LET k == CHOOSE k \in 1..Len(s) :
                  s[k] = c /\ \A j \in 1..(k - 1) : s[j] # c
       IN [some |-> TRUE, fst |-> SubSeq(s, 1, k - 1), snd |-> SubSeq(s, k + 1, Len(s))]
  ELSE [some |-> FALSE, fst |-> <<>>, snd |-> <<>>]

IsDigit(c) == c \in 48..57

RECURSIVE DecValue(_)
DecValue(s) ==
  IF s = <<>> THEN 0
  ELSE DecValue(SubSeq(s, 1, Len(s) - 1)) * 10 + (s[Len(s)] - 48)

\* <u16 as FromStr>::from_str: optional '+', at least one digit, no overflow
u16_parse(s) ==
  LET digits == IF Len(s) > 0 /\ s[1] = 43 THEN Tail(s) ELSE s
  IN IF digits = <<>> \/ (\E k \in 1..Len(digits) : ~IsDigit(digits[k]))
     THEN [some |-> FALSE, val |-> 0]
     ELSE IF DecValue(digits) > 65535
          THEN [some |-> FALSE, val |-> 0]
          ELSE [some |-> TRUE, val |-> DecValue(digits)]

\* the text of octet n (1..4) of a string holding exactly three '.'
Octet(s, n) ==
  LET dots == {k \in 1..Len(s) : s[k] = 46}
      dot(m) == CHOOSE k \in dots : Cardinality({j \in dots : j < k}) = m - 1
  IN SubSeq(s, IF n = 1 THEN 1 ELSE dot(n - 1) + 1,
               IF n = 4 THEN Len(s) ELSE dot(n) - 1)

\* one octet of Ipv4Addr::from_str: 1..3 digits, no leading zero, <= 255
OctetOk(s) ==
  /\ Len(s) \in 1..3
  /\ \A k \in 1..Len(s) : IsDigit(s[k])
  /\ (Len(s) > 1 => s[1] # 48)
  /\ DecValue(s) <= 255

\* <Ipv4Addr as FromStr>::from_str: exactly four octets separated by '.'
Ipv4Addr_from_str(s) ==
  IF /\ Cardinality({k \in 1..Len(s) : s[k] = 46}) = 3
     /\ \A n \in 1..4 : OctetOk(Octet(s, n))
  THEN [some |-> TRUE, val |-> [n \in 1..4 |-> DecValue(Octet(s, n))]]
  ELSE [some |-> FALSE, val |-> <<>>]

\* the two version strings the command's help text names
V4413 == <<52, 46, 52, 46, 49, 46, 51>>     \* "4.4.1.3"
V4213 == <<52, 46, 50, 46, 49, 46, 51>>     \* "4.2.1.3"
V9999 == <<57, 46, 57, 46, 57, 46, 57>>     \* "9.9.9.9", no Dante version

\* DanteVersion::from_string
DanteVersion_from_string(s) ==
  IF s = V4413 THEN [some |-> TRUE, val |-> "Dante4_4_1_3"]
  ELSE IF s = V4213 THEN [some |-> TRUE, val |-> "Dante4_2_1_3"]
  ELSE [some |-> FALSE, val |-> "none"]

(* ----------------------- formatting (Display) -------------------------- *)
RECURSIVE FormatNat(_)
FormatNat(n) ==
  IF n < 10 THEN <<48 + n>> ELSE FormatNat(n \div 10) \o <<48 + (n % 10)>>

FormatIp(ip) ==
  FormatNat(ip[1]) \o <<46>> \o FormatNat(ip[2]) \o <<46>>
    \o FormatNat(ip[3]) \o <<46>> \o FormatNat(ip[4])

VersionString(v) == IF v = "Dante4_4_1_3" THEN V4413 ELSE V4213

(* -------------------------- the batch file ----------------------------- *)
\* A line of the file as it was written: its shape and the text of its fields.
Item(shape, v, tc, td, i, ip) ==
  [shape |-> shape, v |-> v, tc |-> tc, td |-> td, i |-> i, ip |-> ip]

\* the text of a line (the grammar of the command's help text, with the
\* version prefix the loop splits off)
Render(it) ==
  CASE it.shape = "create"      -> it.v \o <<Pipe>> \o it.tc \o <<At>> \o it.td \o <<Colon>> \o it.i \o <<At>> \o it.ip
    [] it.shape = "clear"       -> it.v \o <<Pipe>> \o it.i \o <<At>> \o it.ip
    [] it.shape = "create_bare" -> it.tc \o <<At>> \o it.td \o <<Colon>> \o it.i \o <<At>> \o it.ip
    [] it.shape = "clear_bare"  -> it.i \o <<At>> \o it.ip
    [] OTHER                    -> it.tc

(* ------------------------------ inputs --------------------------------- *)
NameChars == {97, 233, At, Colon, Pipe}
Names == UNION {[1..n -> NameChars] : n \in 0..MaxNameLen}

VersionStrings == {V4413, V4213, V9999}
GoodIp == <<49, 48, 46, 48, 46, 48, 46, 57>>                 \* "10.0.0.9"
IpStrings == {GoodIp,
              <<49, 48, 46, 48, 46, 48>>,                    \* "10.0.0"
              <<50, 53, 54, 46, 48, 46, 48, 46, 49>>,        \* "256.0.0.1"
              <<49, 48, 46, 48, 46, 48, 46, 48, 57>>}        \* "10.0.0.09"
IdxStrings == {<<48>>, <<54, 53, 53, 51, 53>>, <<54, 53, 53, 51, 54>>,   \* "0" "65535" "65536"
               <<43, 55>>, <<48, 55>>, <<97>>, <<>>}                     \* "+7" "07" "a" ""

A == <<97>>
\* lines whose names range over every drawn name
NameItems ==
  {Item("create", V4213, tc, td, <<55>>, GoodIp) : tc \in Names, td \in Names}
\* lines whose other fields range over every drawn text
FieldItems ==
  {Item(sh, v, A, A, i, ip) :
     sh \in {"create", "clear", "create_bare", "clear_bare"},
     v \in VersionStrings, i \in IdxStrings, ip \in IpStrings}
\* the lines multi-line files are made of
SmallItems ==
  { Item("create", V4413, <<97, 97>>, A, <<48>>, GoodIp),
    Item("clear", V4213, A, A, <<54, 53, 53, 51, 53>>, GoodIp),
    Item("create_bare", V4413, A, A, <<48>>, GoodIp),
    Item("clear_bare", V4413, A, A, <<48>>, GoodIp),
    Item("create", V9999, A, A, <<48>>, GoodIp),
    Item("create", V4213, <<233>>, A, <<48>>, GoodIp),
    Item("clear", V4413, A, A, <<48>>, <<49, 48, 46, 48, 46, 48>>),
    Item("raw", V4413, <<>>, A, <<48>>, GoodIp),
    Item("invalid_utf8", V4413, A, A, <<48>>, GoodIp) }

Files ==
  UNION {[1..n -> SmallItems] : n \in 0..MaxLines}
    \cup {<<it>> : it \in NameItems \cup FieldItems}

(* ------------------------------- state --------------------------------- *)
Exits == {"exit_ok", "exit_err", "panic"}

NoCmd(kind) ==
  [kind |-> kind, version |-> <<>>, transmitter_name |-> <<>>,
   transmitter_channel_name |-> <<>>, receiver_ip_string |-> <<>>,
   receiver_channel_index |-> 0, time |-> 0, detailed |-> FALSE]

\* the locals of one iteration of the batch loop
NoLocals ==
  [version |-> "none", command_string |-> <<>>, create |-> FALSE,
   tx |-> <<>>, rx |-> <<>>, tx_chan |-> <<>>, tx_device |-> <<>>,
   rx_chan |-> <<>>, rx_ip_string |-> <<>>, rx_chan_index |-> 0, receiver_ip |-> <<>>]

Init ==
  /\ pos = 0
  /\ line = <<>>
  /\ loc = NoLocals
  /\ pc = "main"
  /\ error = "none"
  /\ calls = <<>>
  /\ disc = <<>>
  /\ \/ /\ \E k \in {"ListDevices", "Monitor"}, t \in {-1, 0, 5}, d \in BOOLEAN :
             cmd = [NoCmd(k) EXCEPT !.time = t, !.detailed = d]
        /\ source = "none" /\ file = <<>>
     \/ /\ \E k \in {"PrintCMC", "PrintDBC", "PrintARC", "PrintCHAN"}, t \in {-1, 2} :
             cmd = [NoCmd(k) EXCEPT !.time = t]
        /\ source = "none" /\ file = <<>>
     \/ /\ cmd = NoCmd("None")
        /\ source = "none" /\ file = <<>>
     \/ /\ \/ \E tn \in Names, tc \in Names :
               cmd = [NoCmd("MakeSubscription") EXCEPT
                        !.version = V4413, !.transmitter_name = tn,
                        !.transmitter_channel_name = tc,
                        !.receiver_ip_string = GoodIp, !.receiver_channel_index = 65535]
           \/ \E v \in VersionStrings, tn \in {A, <<233>>}, ip \in IpStrings :
               cmd = [NoCmd("MakeSubscription") EXCEPT
                        !.version = v, !.transmitter_name = tn,
                        !.transmitter_channel_name = A,
                        !.receiver_ip_string = ip, !.receiver_channel_index = 2]
           \/ \E v \in VersionStrings, ip \in IpStrings, i \in {0, 65535} :
               cmd = [NoCmd("ClearSubscription") EXCEPT
                        !.version = v, !.receiver_ip_string = ip,
                        !.receiver_channel_index = i]
        /\ source = "none" /\ file = <<>>
     \/ /\ cmd = NoCmd("MakeSubscriptionsFromFile")
        /\ \/ source = "file" /\ file \in Files
           \/ source \in {"missing", "directory"} /\ file = <<>>


(* --------------------- the requests of the commands -------------------- *)
Call(op, version, ip, idx, dev, chan, n) ==
  [op |-> op, version |-> version, ip |-> ip, idx |-> idx, dev |-> dev,
   chan |-> chan, line |-> n, ret |-> "pending"]

Fail(e) == [ok |-> FALSE, err |-> e, call |-> Call("none", "none", <<>>, 0, <<>>, <<>>, 0)]
Issue(c) == [ok |-> TRUE, err |-> "none", call |-> c]

\* Control MakeSubscription up to its library call
DecodeMake(c) ==
  LET version == DanteVersion_from_string(c.version)
      receiver_ip == Ipv4Addr_from_str(c.receiver_ip_string)
  IN IF ~version.some THEN Fail("VersionParse")
     ELSE IF ~receiver_ip.some THEN Fail("AddrParseError")
     ELSE IF ~as_ascii_str_ok(c.transmitter_name) THEN Fail("AsAsciiStrError")
     ELSE IF ~as_ascii_str_ok(c.transmitter_channel_name) THEN Fail("AsAsciiStrError")
     ELSE Issue(Call("make_subscription", version.val, receiver_ip.val,
                     c.receiver_channel_index, c.transmitter_name,
                     c.transmitter_channel_name, 0))

\* Control ClearSubscription up to its library call
DecodeClear(c) ==
  LET version == DanteVersion_from_string(c.version)
      receiver_ip == Ipv4Addr_from_str(c.receiver_ip_string)
  IN IF ~version.some THEN Fail("VersionParse")
     ELSE IF ~receiver_ip.some THEN Fail("AddrParseError")
     ELSE Issue(Call("clear_subscription", version.val, receiver_ip.val,
                     c.receiver_channel_index, <<>>, <<>>, 0))

\* Duration::from_secs_f32 panics on a negative number of seconds
from_secs_f32_panics(t) == t < 0

(* ------------------------------ actions -------------------------------- *)
\* variant: a failure inside the batch loop moves on to the next line
Propagate_Continue(e) ==
  IF cmd.kind = "MakeSubscriptionsFromFile" /\ pc # "main" /\ pc # "call"
  THEN pc' = "b_next" /\ error' = error
  ELSE pc' = "exit_err" /\ error' = e

\* `?` on an Err: main returns the error
Propagate(e) == pc' = "exit_err" /\ error' = e

\* variant: the Result of the library call is dropped
AfterCall_Dropped(r) ==
  /\ pc' = (IF cmd.kind = "MakeSubscriptionsFromFile" THEN "b_next" ELSE "exit_ok")
  /\ error' = error

\* what main does with the Result of make_subscription / clear_subscription
AfterCall(r) ==
  IF r = "err" THEN Propagate("ControlError")
  ELSE /\ pc' = (IF cmd.kind = "MakeSubscriptionsFromFile" THEN "b_next" ELSE "exit_ok")
       /\ error' = error

\* a direct control command: issue the call or return the error
AfterDecode(d) ==
  IF d.ok
  THEN calls' = Append(calls, d.call) /\ pc' = "call" /\ error' = error
  ELSE Propagate(d.err) /\ calls' = calls

ListDevices_Start ==
  /\ pc = "main" /\ cmd.kind = "ListDevices"
  /\ \E r \in {"start_ok", "start_err"} :
       /\ disc' = Append(disc, r)
       /\ IF r = "start_err" THEN Propagate("DiscoveryError")
          ELSE pc' = "ld_sleep" /\ error' = error
  /\ UNCHANGED <<cmd, source, file, pos, calls, line, loc>>

ListDevices_Sleep ==
  /\ pc = "ld_sleep"
  /\ pc' = (IF from_secs_f32_panics(cmd.time) THEN "panic" ELSE "ld_stop")
  /\ UNCHANGED <<cmd, source, file, pos, error, calls, disc, line, loc>>

\* variant: the registry is read while discovery is still running
ListDevices_Stop_Skipped ==
  /\ pc = "ld_stop"
  /\ pc' = "ld_print"
  /\ UNCHANGED <<cmd, source, file, pos, error, calls, disc, line, loc>>

ListDevices_Stop ==
  /\ pc = "ld_stop"
  /\ disc' = Append(disc, "stop")
  /\ pc' = "ld_print"
  /\ UNCHANGED <<cmd, source, file, pos, error, calls, line, loc>>

ListDevices_Print ==
  /\ pc = "ld_print"
  /\ disc' = Append(disc, IF cmd.detailed THEN "get_device_descriptions" ELSE "get_device_names")
  /\ pc' = "exit_ok"
  /\ UNCHANGED <<cmd, source, file, pos, error, calls, line, loc>>

Monitor_Start ==
  /\ pc = "main" /\ cmd.kind = "Monitor"
  /\ \E r \in {"start_ok", "start_err"} :
       /\ disc' = Append(disc, r)
       /\ IF r = "start_err" THEN Propagate("DiscoveryError")
          ELSE pc' = "mon_loop" /\ error' = error
  /\ UNCHANGED <<cmd, source, file, pos, calls, line, loc>>

Monitor_Tick ==
  /\ pc = "mon_loop"
  /\ Len(disc) <= MaxTicks
  /\ IF from_secs_f32_panics(cmd.time)
     THEN pc' = "panic" /\ disc' = disc
     ELSE /\ pc' = "mon_loop"
          /\ disc' = Append(disc, IF cmd.detailed THEN "get_device_descriptions" ELSE "get_device_names")
  /\ UNCHANGED <<cmd, source, file, pos, error, calls, line, loc>>

Debug_Print ==
  /\ pc = "main" /\ cmd.kind \in {"PrintCMC", "PrintDBC", "PrintARC", "PrintCHAN"}
  /\ pc' = (IF from_secs_f32_panics(cmd.time) THEN "panic" ELSE "exit_ok")
  /\ UNCHANGED <<cmd, source, file, pos, error, calls, disc, line, loc>>

NoCommand ==
  /\ pc = "main" /\ cmd.kind = "None"
  /\ pc' = "exit_ok"
  /\ UNCHANGED <<cmd, source, file, pos, error, calls, disc, line, loc>>

MakeSubscription ==
  /\ pc = "main" /\ cmd.kind = "MakeSubscription"
  /\ AfterDecode(DecodeMake(cmd))
  /\ UNCHANGED <<cmd, source, file, pos, disc, line, loc>>

ClearSubscription ==
  /\ pc = "main" /\ cmd.kind = "ClearSubscription"
  /\ AfterDecode(DecodeClear(cmd))
  /\ UNCHANGED <<cmd, source, file, pos, disc, line, loc>>

\* the library call returns
Library_Return ==
  /\ pc = "call"
  /\ \E r \in {"ok", "err"} :
       /\ calls' = [calls EXCEPT ![Len(calls)].ret = r]
       /\ AfterCall(r)
  /\ UNCHANGED <<cmd, source, file, pos, disc, line, loc>>

(* --------------- MakeSubscriptionsFromFile, step by step --------------- *)
FromFile_Open ==
  /\ pc = "main" /\ cmd.kind = "MakeSubscriptionsFromFile"
  /\ IF source = "missing" THEN Propagate("IoError")
     ELSE pc' = "b_next" /\ error' = error
  /\ UNCHANGED <<cmd, source, file, pos, calls, disc, line, loc>>

\* Lines::next: a read error on a directory consumes nothing; an invalid
\* UTF-8 line is consumed and reported; the end of the input ends the loop
Lines_Next ==
  /\ pc = "b_next"
  /\ IF source = "directory" THEN pc' = "b_read_err" /\ pos' = pos /\ line' = <<>>
     ELSE IF pos = Len(file) THEN pc' = "exit_ok" /\ pos' = pos /\ line' = <<>>
     ELSE /\ pos' = pos + 1
          /\ IF file[pos + 1].shape = "invalid_utf8"
             THEN pc' = "b_read_err" /\ line' = <<>>
             ELSE pc' = "b_line" /\ line' = Render(file[pos + 1])
  /\ loc' = NoLocals
  /\ UNCHANGED <<cmd, source, file, error, calls, disc>>

\* Flatten drops an Err item and asks Lines for the next one
Flatten_Skip ==
  /\ pc = "b_read_err"
  /\ pc' = "b_next"
  /\ UNCHANGED <<cmd, source, file, pos, error, calls, disc, line, loc>>

\* variant: an unknown version falls back to a default instead of failing
Split_Version_Default ==
  /\ pc = "b_line"
  /\ LET p == split_once(line, Pipe)
         version == DanteVersion_from_string(p.fst)
     IN IF ~p.some THEN Propagate("VersionDelimiter") /\ loc' = loc
        ELSE /\ loc' = [loc EXCEPT !.command_string = p.snd,
                          !.version = IF version.some THEN version.val ELSE "Dante4_4_1_3"]
             /\ pc' = (IF contains(p.snd, Colon) THEN "b_txrx" ELSE "b_rx")
             /\ error' = error
  /\ UNCHANGED <<cmd, source, file, pos, calls, disc, line>>

\* split off the version and parse it, then choose the branch
Split_Version ==
  /\ pc = "b_line"
  /\ LET p == split_once(line, Pipe)
         version == DanteVersion_from_string(p.fst)
     IN IF ~p.some THEN Propagate("VersionDelimiter") /\ loc' = loc
        ELSE IF ~version.some THEN Propagate("VersionParse") /\ loc' = loc
        ELSE /\ loc' = [loc EXCEPT !.version = version.val, !.command_string = p.snd]
             /\ pc' = (IF contains(p.snd, Colon) THEN "b_txrx" ELSE "b_rx")
             /\ error' = error
  /\ UNCHANGED <<cmd, source, file, pos, calls, disc, line>>

Split_TxRx ==
  /\ pc = "b_txrx"
  /\ LET txrx == split_once(loc.command_string, Colon)
     IN IF ~txrx.some THEN Propagate("TxRxDelimiter") /\ loc' = loc
        ELSE /\ loc' = [loc EXCEPT !.create = TRUE, !.tx = txrx.fst, !.rx = txrx.snd]
             /\ pc' = "b_tx" /\ error' = error
  /\ UNCHANGED <<cmd, source, file, pos, calls, disc, line>>

Split_Tx ==
  /\ pc = "b_tx"
  /\ LET t == split_once(loc.tx, At)
     IN IF ~t.some THEN Propagate("TxDelimiter") /\ loc' = loc
        ELSE /\ loc' = [loc EXCEPT !.tx_chan = t.fst, !.tx_device = t.snd]
             /\ pc' = "b_rx" /\ error' = error
  /\ UNCHANGED <<cmd, source, file, pos, calls, disc, line>>

\* the receiver part: rx on a create line, the whole command on a clear line
Split_Rx ==
  /\ pc = "b_rx"
  /\ LET r == split_once(IF loc.create THEN loc.rx ELSE loc.command_string, At)
     IN IF ~r.some THEN Propagate("RxDelimiter") /\ loc' = loc
        ELSE /\ loc' = [loc EXCEPT !.rx_chan = r.fst, !.rx_ip_string = r.snd]
             /\ pc' = "b_index" /\ error' = error
  /\ UNCHANGED <<cmd, source, file, pos, calls, disc, line>>

Parse_Index ==
  /\ pc = "b_index"
  /\ LET n == u16_parse(loc.rx_chan)
     IN IF ~n.some THEN Propagate("RxChanIndexParse") /\ loc' = loc
        ELSE /\ loc' = [loc EXCEPT !.rx_chan_index = n.val]
             /\ pc' = "b_ip" /\ error' = error
  /\ UNCHANGED <<cmd, source, file, pos, calls, disc, line>>

Parse_Ip ==
  /\ pc = "b_ip"
  /\ LET a == Ipv4Addr_from_str(loc.rx_ip_string)
     IN IF ~a.some THEN Propagate("AddrParseError") /\ loc' = loc
        ELSE /\ loc' = [loc EXCEPT !.receiver_ip = a.val]
             /\ pc' = (IF loc.create THEN "b_make" ELSE "b_clear") /\ error' = error
  /\ UNCHANGED <<cmd, source, file, pos, calls, disc, line>>

\* variant: the two names are passed in the order the line writes them
Batch_Make_Swapped ==
  /\ pc = "b_make"
  /\ IF ~as_ascii_str_ok(loc.tx_device) \/ ~as_ascii_str_ok(loc.tx_chan)
     THEN Propagate("AsAsciiStrError") /\ calls' = calls
     ELSE /\ calls' = Append(calls, Call("make_subscription", loc.version, loc.receiver_ip,
                                          loc.rx_chan_index, loc.tx_chan, loc.tx_device, pos))
          /\ pc' = "call" /\ error' = error
  /\ UNCHANGED <<cmd, source, file, pos, disc, line, loc>>

\* variant: the names are passed on without the ASCII conversion
Batch_Make_Unchecked ==
  /\ pc = "b_make"
  /\ calls' = Append(calls, Call("make_subscription", loc.version, loc.receiver_ip,
                                 loc.rx_chan_index, loc.tx_device, loc.tx_chan, pos))
  /\ pc' = "call" /\ error' = error
  /\ UNCHANGED <<cmd, source, file, pos, disc, line, loc>>

\* the ASCII conversions and the make_subscription call of a create line
Batch_Make ==
  /\ pc = "b_make"
  /\ IF ~as_ascii_str_ok(loc.tx_device) \/ ~as_ascii_str_ok(loc.tx_chan)
     THEN Propagate("AsAsciiStrError") /\ calls' = calls
     ELSE /\ calls' = Append(calls, Call("make_subscription", loc.version, loc.receiver_ip,
                                          loc.rx_chan_index, loc.tx_device, loc.tx_chan, pos))
          /\ pc' = "call" /\ error' = error
  /\ UNCHANGED <<cmd, source, file, pos, disc, line, loc>>

\* the clear_subscription call of a clear line
Batch_Clear ==
  /\ pc = "b_clear"
  /\ calls' = Append(calls, Call("clear_subscription", loc.version, loc.receiver_ip,
                                 loc.rx_chan_index, <<>>, <<>>, pos))
  /\ pc' = "call" /\ error' = error
  /\ UNCHANGED <<cmd, source, file, pos, disc, line, loc>>

Next ==
  \/ ListDevices_Start \/ ListDevices_Sleep \/ ListDevices_Stop \/ ListDevices_Print
  \/ Monitor_Start \/ Monitor_Tick
  \/ Debug_Print
  \/ NoCommand
  \/ MakeSubscription
  \/ ClearSubscription
  \/ Library_Return
  \/ FromFile_Open \/ Lines_Next \/ Flatten_Skip
  \/ Split_Version \/ Split_TxRx \/ Split_Tx \/ Split_Rx \/ Parse_Index \/ Parse_Ip
  \/ Batch_Make \/ Batch_Clear

Spec == Init /\ [][Next]_vars

\* the process keeps running: a step that can be taken is taken
FairSpec == Spec /\ WF_vars(Next)

Terminal == pc \in Exits

(* --------------------- vocabulary of the properties -------------------- *)
Batch == cmd.kind = "MakeSubscriptionsFromFile"
Direct == cmd.kind \in {"MakeSubscription", "ClearSubscription", "ListDevices"}

\* the calls issued for line k of the file
CallsAt(k) == {n \in 1..Len(calls) : calls[n].line = k}

\* line k has been read and the loop has finished with it
LinePcs == {"b_line", "b_txrx", "b_tx", "b_rx", "b_index", "b_ip", "b_make", "b_clear"}
Processed(k) == k < pos \/ (k = pos /\ pc \notin LinePcs)

IsText(it) == it.shape # "invalid_utf8"
KnownVersion(s) == s \in {V4413, V4213}
\* a name free of the three delimiters of the grammar
PlainName(s) ==
  as_ascii_str_ok(s) /\ ~contains(s, Pipe) /\ ~contains(s, Colon) /\ ~contains(s, At)
\* decimal digits denoting a number of 0..65535
IsDecimalU16(s) ==
  Len(s) > 0 /\ (\A k \in 1..Len(s) : IsDigit(s[k])) /\ DecValue(s) <= 65535
\* four decimal numbers of 0..255, written without leading zeros, joined by '.'
IsDottedIpv4(s) ==
  /\ Cardinality({k \in 1..Len(s) : s[k] = 46}) = 3
  /\ \A n \in 1..4 :
       /\ Len(Octet(s, n)) > 0
       /\ \A j \in 1..Len(Octet(s, n)) : IsDigit(Octet(s, n)[j])
       /\ DecValue(Octet(s, n)) <= 255
       /\ FormatNat(DecValue(Octet(s, n))) = Octet(s, n)
DottedValue(s) == [n \in 1..4 |-> DecValue(Octet(s, n))]

ReadEvents == {"get_device_names", "get_device_descriptions"}
StartEvents == {"start_ok", "start_err"}

\* a prefixed create or clear line all of whose fields are valid
WellFormed(it) ==
  /\ it.shape \in {"create", "clear"}
  /\ KnownVersion(it.v)
  /\ it.shape = "create" => (PlainName(it.tc) /\ PlainName(it.td))
  /\ IsDecimalU16(it.i)
  /\ IsDottedIpv4(it.ip)

(* ------------------------------- C1 ------------------------------------ *)
\* C1: in the batch loop a failure on one line is not fatal to the lines
\* after it: when the command has ended on a file that could be read, every
\* line has been read and every line that decodes to a request has had its
\* control call issued.
C1_LineFailureNonFatal ==
  (Batch /\ source = "file" /\ Terminal) =>
    \A k \in 1..Len(file) :
      /\ k <= pos
      /\ WellFormed(file[k]) => CallsAt(k) # {}

(* ------------------------------- C2 ------------------------------------ *)
\* C2: a request whose version string is no Dante version is rejected with
\* VersionParse and no library call is made for it, in the direct
\* MakeSubscription and ClearSubscription commands and on every line of the
\* batch file.
C2_UnknownVersionNoCall ==
  /\ (cmd.kind \in {"MakeSubscription", "ClearSubscription"} /\ ~KnownVersion(cmd.version)) =>
       /\ calls = <<>>
       /\ pc # "main" => (pc = "exit_err" /\ error = "VersionParse")
  /\ Batch =>
       \A k \in 1..pos :
         (file[k].shape \in {"create", "clear"} /\ ~KnownVersion(file[k].v)) =>
           /\ CallsAt(k) = {}
           /\ Processed(k) => (pc = "exit_err" /\ error = "VersionParse" /\ pos = k)

\* a line with an unknown version was rejected after an earlier line's call
C2_Witness ==
  /\ Batch /\ pc = "exit_err" /\ error = "VersionParse"
  /\ Len(calls) = 1 /\ pos = 2 /\ ~KnownVersion(file[2].v)

(* ------------------------------- C3 ------------------------------------ *)
\* C3: make_subscription is never called for a request whose transmitter
\* device name or transmitter channel name has a non-ASCII character, in the
\* direct MakeSubscription command and on every create line of the batch
\* file: the number of calls made for such a request is zero.
C3_NonAsciiNoCall ==
  /\ (cmd.kind = "MakeSubscription"
        /\ ~(as_ascii_str_ok(cmd.transmitter_name)
               /\ as_ascii_str_ok(cmd.transmitter_channel_name))) =>
       Len(calls) = 0
  /\ Batch =>
       \A k \in 1..pos :
         (file[k].shape \in {"create", "create_bare"}
            /\ ~(as_ascii_str_ok(file[k].tc) /\ as_ascii_str_ok(file[k].td))) =>
           Cardinality(CallsAt(k)) = 0

\* a create line with a known version and a non-ASCII name was rejected
C3_Witness ==
  /\ Batch /\ pc = "exit_err" /\ error = "AsAsciiStrError"
  /\ file[pos].shape = "create" /\ ~as_ascii_str_ok(file[pos].td)

(* ------------------------------- C4 ------------------------------------ *)
\* the one call issued for line k
TheCall(k) == calls[CHOOSE n \in CallsAt(k) : TRUE]

\* C4: a line V|TC@TD:I@IP with V a known version, TC and TD ASCII names
\* free of '|', ':' and '@', I a decimal u16 and IP a dotted IPv4 address
\* makes the loop issue exactly one make_subscription(V, IP, I, TD, TC); a
\* line V|I@IP makes it issue exactly one clear_subscription(V, IP, I) and no
\* make_subscription.
C4_FieldOrder ==
  Batch =>
    \A k \in 1..pos :
      (/\ Processed(k)
       /\ file[k].shape \in {"create", "clear"}
       /\ KnownVersion(file[k].v)
       /\ file[k].shape = "create" => (PlainName(file[k].tc) /\ PlainName(file[k].td))
       /\ IsDecimalU16(file[k].i)
       /\ IsDottedIpv4(file[k].ip)) =>
        /\ Cardinality(CallsAt(k)) = 1
        /\ TheCall(k).version = (IF file[k].v = V4413 THEN "Dante4_4_1_3" ELSE "Dante4_2_1_3")
        /\ TheCall(k).ip = DottedValue(file[k].ip)
        /\ TheCall(k).idx = DecValue(file[k].i)
        /\ IF file[k].shape = "create"
           THEN /\ TheCall(k).op = "make_subscription"
                /\ TheCall(k).dev = file[k].td
                /\ TheCall(k).chan = file[k].tc
           ELSE TheCall(k).op = "clear_subscription"

\* a create line whose two names differ and a clear line were both decoded
C4_Witness ==
  /\ Batch /\ pc = "exit_ok" /\ Len(calls) = 2
  /\ calls[1].op = "make_subscription" /\ calls[1].dev # calls[1].chan
  /\ calls[2].op = "clear_subscription"

(* ------------------------------- C5 ------------------------------------ *)
\* C5: the version prefix of a batch line is optional: a well-formed create
\* or clear line without a leading `version|` is accepted by the loop and
\* mapped onto make_subscription or clear_subscription.
C5_PrefixOptional ==
  Batch =>
    \A k \in 1..pos :
      (/\ Processed(k)
       /\ file[k].shape \in {"create_bare", "clear_bare"}
       /\ file[k].shape = "create_bare" => (PlainName(file[k].tc) /\ PlainName(file[k].td))
       /\ IsDecimalU16(file[k].i)
       /\ IsDottedIpv4(file[k].ip)) =>
        /\ ~(pc = "exit_err" /\ pos = k /\ error = "VersionDelimiter")
        /\ \E n \in CallsAt(k) :
             calls[n].op = (IF file[k].shape = "create_bare"
                            THEN "make_subscription" ELSE "clear_subscription")

(* ------------------------------- C6 ------------------------------------ *)
\* line k is the line written from a request: a known version, two names,
\* the index and the address in their canonical decimal form
WrittenFromRequest(it) ==
  /\ it.shape = "create"
  /\ KnownVersion(it.v)
  /\ as_ascii_str_ok(it.tc) /\ as_ascii_str_ok(it.td)
  /\ IsDecimalU16(it.i) /\ FormatNat(DecValue(it.i)) = it.i
  /\ IsDottedIpv4(it.ip)

\* line k was decoded into one make_subscription carrying its five fields
DecodedBack(k) ==
  /\ Cardinality(CallsAt(k)) = 1
  /\ TheCall(k).op = "make_subscription"
  /\ VersionString(TheCall(k).version) = file[k].v
  /\ TheCall(k).chan = file[k].tc
  /\ TheCall(k).dev = file[k].td
  /\ FormatNat(TheCall(k).idx) = file[k].i
  /\ FormatIp(TheCall(k).ip) = file[k].ip

\* C6 as stated: every request with ASCII names, written as
\* version|txChannel@txDevice:rxIndex@rxIp, is decoded by the loop into a
\* make_subscription call carrying exactly its five field values.
C6_EveryAsciiRequest ==
  Batch =>
    \A k \in 1..pos :
      (Processed(k) /\ WrittenFromRequest(file[k])) => DecodedBack(k)

\* C6 amended: the same for every request whose channel name has neither
\* '@' nor ':' and whose device name has no ':'.
C6_UnambiguousRequest ==
  Batch =>
    \A k \in 1..pos :
      (/\ Processed(k) /\ WrittenFromRequest(file[k])
       /\ ~contains(file[k].tc, At) /\ ~contains(file[k].tc, Colon)
       /\ ~contains(file[k].td, Colon)) =>
        DecodedBack(k)

\* a request whose device name holds '@' and '|' was decoded back
C6_Witness ==
  /\ Batch /\ pos = 1 /\ pc = "exit_ok" /\ Len(calls) = 1
  /\ WrittenFromRequest(file[1])
  /\ file[1].td = <<At, Pipe>> /\ calls[1].dev = <<At, Pipe>>

(* ------------------------------- C7 ------------------------------------ *)
\* C7: a direct invocation (MakeSubscription, ClearSubscription,
\* ListDevices) ends in the failure exit whenever a step returned an error
\* (version parse, IP parse, ASCII conversion, start_discovery, the library
\* call) and ends in the success exit only if every step succeeded.
C7_NoErrorSwallowed ==
  Direct =>
    /\ (\E n \in 1..Len(calls) : calls[n].ret = "err") => pc = "exit_err"
    /\ (\E n \in 1..Len(disc) : disc[n] = "start_err") => pc = "exit_err"
    /\ (Terminal /\ cmd.kind # "ListDevices"
          /\ (~KnownVersion(cmd.version) \/ ~IsDottedIpv4(cmd.receiver_ip_string)
                \/ ~as_ascii_str_ok(cmd.transmitter_name)
                \/ ~as_ascii_str_ok(cmd.transmitter_channel_name))) =>
         pc = "exit_err"
    /\ pc = "exit_ok" =>
         IF cmd.kind = "ListDevices"
         THEN disc[1] = "start_ok"
         ELSE Len(calls) = 1 /\ calls[1].ret = "ok"

\* a direct command whose library call returned an error
C7_Witness ==
  /\ cmd.kind = "ClearSubscription" /\ pc = "exit_err"
  /\ Len(calls) = 1 /\ calls[1].ret = "err"

(* ------------------------------- C8 ------------------------------------ *)
\* C8: start_discovery is called at most once on a manager; stop_discovery
\* is called only after a successful start_discovery; in ListDevices every
\* registry read comes after stop_discovery and there is none when
\* start_discovery failed; the control commands never start discovery.
C8_DiscoveryLifecycle ==
  /\ Cardinality({n \in 1..Len(disc) : disc[n] \in StartEvents}) <= 1
  /\ \A n \in 1..Len(disc) :
       disc[n] = "stop" => \E m \in 1..(n - 1) : disc[m] = "start_ok"
  /\ cmd.kind = "ListDevices" =>
       \A n \in 1..Len(disc) :
         disc[n] \in ReadEvents => \E m \in 1..(n - 1) : disc[m] = "stop"
  /\ (\E n \in 1..Len(disc) : disc[n] = "start_err") =>
       \A n \in 1..Len(disc) : disc[n] \notin ReadEvents
  /\ cmd.kind \in {"MakeSubscription", "ClearSubscription", "MakeSubscriptionsFromFile"} =>
       disc = <<>>

\* ListDevices has started, stopped and read the registry
C8_Witness ==
  /\ cmd.kind = "ListDevices" /\ pc = "exit_ok"
  /\ disc = <<"start_ok", "stop", "get_device_descriptions">>

(* ------------------------------- C9 ------------------------------------ *)
\* calls are issued one at a time, in file order, at most one per line, the
\* next one only after the one before has returned
Serialized ==
  /\ \A k \in 1..Len(file) : Cardinality(CallsAt(k)) <= 1
  /\ \A m \in 1..Len(calls), n \in 1..Len(calls) :
       m < n => (calls[m].line < calls[n].line /\ calls[m].ret # "pending")
  /\ \A n \in 1..Len(calls) : calls[n].ret = "pending" => pc = "call"

\* the lines read before line n have had their calls, those after it none
PrefixBefore(n) ==
  /\ \A k \in 1..(n - 1) : IsText(file[k]) => Cardinality(CallsAt(k)) = 1
  /\ \A k \in (n + 1)..Len(file) : CallsAt(k) = {}

C10_BatchTerminates == (Batch /\ pc = "b_next") ~> Terminal

====
